---- MODULE Spec2Model ----
(***************************************************************************)
(* GarageDoorHandler (garageDoorHandler.ts): the motion-control state      *)
(* machine of the garage-door server.                                      *)
(*                                                                         *)
(* Numbers are fixed-point: heights and distances are in 1/10000 foot,     *)
(* times are in milliseconds.  A rate is never stored: "t * rate" is       *)
(* (t * DOOR_HEIGHT_FEET) \div DOOR_xxx_TIME_SEC and "d / rate" is         *)
(* (d * DOOR_xxx_TIME_SEC) \div DOOR_HEIGHT_FEET, truncated.               *)
(*                                                                         *)
(* Every async function is a coroutine.  A step of the model is one run    *)
(* of the event loop: a call from outside or a timer callback, followed    *)
(* by everything the woken coroutine does up to its next setTimeout.       *)
(* Timers fire in any order (the times of the calls are arbitrary).        *)
(***************************************************************************)
EXTENDS Integers, Sequences, FiniteSets, TLC

\* ------------------------------------------------------------- bounds ----
\* Number of calls from outside (handleRequest, stop, turnOnLight) in one
\* behaviour of Spec; SpecSerialized does not bound the number of requests.
MaxCalls == 2

\* Number of pin writes that the hardware rejects in one behaviour of
\* SpecFaulty.
MaxFaults == 1

\* ---------------------------------------------------------- constants ----
DOOR_OPEN_TIME_SEC == 16750
DOOR_CLOSE_TIME_SEC == 15750
DOOR_OPENER_SIGNAL_HOLD_TIME_SEC == 250
MIN_TIME_BETWEEN_BUTTON_PRESSES_SEC == 750
DOOR_HEIGHT_FEET == 70833
DOOR_MAX_AUTO_BOUNCE_BACK_HEIGHT_FEET == -10000
DOOR_AUTO_BOUNCE_BACK_DELAY_SEC == 500
OPENER_LIGHT_BUTTON_PRESS_TIME_SEC == 100

\* ------------------------------------------------------------- inputs ----
\* number | null: the empty sequence is null, <<n>> is the number n.
Null == <<>>
Some(n) == <<n>>

Movements == {"up", "down", "to"}
\* Arguments of 'to': below 0, 0, interior heights, the full height, above it.
Heights == {Null, Some(-10000), Some(0), Some(1000), Some(35000), Some(39000),
            Some(70000), Some(DOOR_HEIGHT_FEET), Some(80000)}
\* Arguments of 'up' and 'down'.
Distances == {Null, Some(0), Some(35000), Some(80000)}
Numbers(movement) == IF movement = "to" THEN Heights ELSE Distances
\* Arguments of the requests that Spec interleaves with other calls.
AnyTimeNumbers(movement) ==
    IF movement = "to" THEN {Some(35000), Some(39000), Some(70000), Some(80000)}
                       ELSE {Null}

ReqIds == 1 .. MaxCalls
\* Owner of the pulse that stop() issues.
STOP == 0
\* A handle of the timeouts registry whose timer has already fired.
DEAD == 0

VARIABLES
    currentDoorHeight,    \* GarageDoorHandler.currentDoorHeight
    lastDirectionWasUp,   \* GarageDoorHandler.lastDirectionWasUp
    doorIsMoving,         \* GarageDoorHandler.doorIsMoving
    timeouts,             \* GarageDoorHandler.timeouts: sequence of timer handles
    timers,               \* the registered-kind timers that are scheduled and not fired
    pin,                  \* level of GPIO pin 7 (TRUE = on = released)
    pulses,               \* pressButton calls in flight: [owner, phase]
    req,                  \* the handleRequest coroutines
    stopPc,               \* the stop() coroutine: "none", "press", "resolved", "hung"
    calls,                \* number of calls from outside so far (counted in Spec)
    inFlightAtStop,       \* requests that were unsettled when stop() was last called
    lightPc,              \* the turnOnLight() coroutine: "none", "hold"
    bounceBackThreshold,  \* the configured DOOR_MAX_AUTO_BOUNCE_BACK_HEIGHT_FEET
    faults,               \* number of pin writes the hardware will still reject
    posted                \* path of the latest HTTP POST, after /garageDoor

vars == <<currentDoorHeight, lastDirectionWasUp, doorIsMoving, timeouts, timers,
          pin, pulses, req, stopPc, calls, inFlightAtStop,
          lightPc, bounceBackThreshold, faults, posted>>

\* ------------------------------------------------------ pure functions ----
Abs(x) == IF x < 0 THEN -x ELSE x
Max(a, b) == IF a > b THEN a ELSE b
Min(a, b) == IF a < b THEN a ELSE b

\* JavaScript's `x || dflt` on number | null: null and 0 are falsy.
OrElse(number, dflt) ==
    IF number = Null THEN dflt ELSE IF number[1] = 0 THEN dflt ELSE number[1]

correctHeightBounds_NoUpperBound(height) == Max(0, height)

correctHeightBounds_NoLowerBound(height) == Min(DOOR_HEIGHT_FEET, height)

correctHeightBounds(height) == Max(0, Min(DOOR_HEIGHT_FEET, height))

calculatedDistance_NoDefault(movement, distance) ==
    OrElse(distance, 0) * (IF movement = "up" THEN 1 ELSE -1)

\* handleDistanceRequest: the signed distance.
calculatedDistance(movement, distance) ==
    OrElse(distance, DOOR_HEIGHT_FEET) * (IF movement = "up" THEN 1 ELSE -1)

\* The target height handleRequest passes to handleHeightRequest.
requestedHeight(movement, number) ==
    IF movement = "to"
    THEN OrElse(number, 0)
    ELSE currentDoorHeight + calculatedDistance(movement, number)

\* The bounce-back decided without the threshold.
willBounceBack_IgnoresThreshold(threshold) ==
    /\ currentDoorHeight > 0
    /\ ~lastDirectionWasUp

willBounceBack(threshold) ==
    /\ currentDoorHeight <= threshold
    /\ currentDoorHeight > 0
    /\ ~lastDirectionWasUp

\* The double press decided by the height alone.
doDoublePress_IgnoresDirection(shouldGoUp) ==
    /\ currentDoorHeight > 0
    /\ currentDoorHeight < DOOR_HEIGHT_FEET

doDoublePress(shouldGoUp) ==
    /\ currentDoorHeight > 0
    /\ currentDoorHeight < DOOR_HEIGHT_FEET
    /\ shouldGoUp = lastDirectionWasUp

\* t * DOOR_OPEN_RATE_FEET_PER_SEC and t * DOOR_CLOSE_RATE_FEET_PER_SEC
TimesOpenRate(t) == (t * DOOR_HEIGHT_FEET) \div DOOR_OPEN_TIME_SEC
TimesCloseRate(t) == (t * DOOR_HEIGHT_FEET) \div DOOR_CLOSE_TIME_SEC

\* conditionallyDoDoublePress: t * rate, rate = shouldGoUp ? open : -close
TimesDoublePressRate(t, shouldGoUp) ==
    IF shouldGoUp THEN TimesOpenRate(t) ELSE -TimesCloseRate(t)

isStoppingEarly(height) == height < DOOR_HEIGHT_FEET /\ height > 0

\* `current` is this.currentDoorHeight at the time of the call.
calculateTimeToReachHeight(height, current, shouldGoUp, stoppingEarly) ==
    ((Abs(height - current) *
        (IF shouldGoUp THEN DOOR_OPEN_TIME_SEC ELSE DOOR_CLOSE_TIME_SEC))
            \div DOOR_HEIGHT_FEET)
    - (IF stoppingEarly THEN DOOR_OPENER_SIGNAL_HOLD_TIME_SEC ELSE 0)

\* setTimeout(callback, ms) with the delay left as it was passed.
timerDelay_Unclamped(ms) == ms

\* setTimeout(callback, ms): a delay below 1 ms is set to 1 ms.
timerDelay(ms) == IF ms < 1 THEN 1 ELSE ms

\* waitForDoorToGetAboveBounceBackHeight
heightAboveBounceBackHeight(threshold) == (threshold * 11) \div 10

\* ------------------------------------------------------------- helpers ----
BlankReq ==
    [pc |-> "none", movement |-> "to", number |-> Null, height |-> 0,
     shouldGoUp |-> FALSE, isStoppingEarly |-> FALSE, timeToReachHeightSec |-> 0,
     presses |-> 0, startHeight |-> 0, startDirection |-> FALSE, startMoving |-> FALSE]

Range(s) == {s[k] : k \in DOMAIN s}
Pop(s) == IF s = <<>> THEN s ELSE SubSeq(s, 1, Len(s) - 1)
\* The handle h belongs to a timer that has fired: it no longer names a timer.
Fired(s, h) == [k \in DOMAIN s |-> IF s[k] = h THEN DEAD ELSE s[k]]

\* The coroutine i is waiting for a registered timer that was cleared.
Cancelled(i) == req[i].pc \in {"timer", "bbwait"} /\ i \notin timers
\* The coroutine i has been called and can still run.
\* ("rejected": its promise rejected; "hung": its promise can never settle).
InFlight(i) ==
    req[i].pc \notin {"none", "resolved", "rejected", "hung"} /\ ~Cancelled(i)
\* The slot a new invocation takes.
FreeSlots == {i \in ReqIds : ~InFlight(i)}
NextSlot == CHOOSE i \in FreeSlots : \A j \in FreeSlots : i <= j

\* A timer whose callback runs although clearTimeout was called on it.
timerIsPending_IgnoresClear(i) == req[i].pc \in {"timer", "bbwait"}

\* The registered timer of the coroutine i can fire: it is scheduled, has not
\* fired and clearTimeout has not been called on it.
timerIsPending(i) == i \in timers

Hold(o) == [owner |-> o, phase |-> "hold"]
Cooldown(o) == [owner |-> o, phase |-> "cooldown"]

Init ==
    /\ currentDoorHeight = 0
    /\ lastDirectionWasUp = FALSE
    /\ doorIsMoving = FALSE
    /\ timeouts = <<>>
    /\ timers = {}
    /\ pin = TRUE
    /\ pulses = {}
    /\ req = [i \in ReqIds |-> BlankReq]
    /\ stopPc = "none"
    /\ calls = 0
    /\ inFlightAtStop = {}
    /\ lightPc = "none"
    /\ bounceBackThreshold = DOOR_MAX_AUTO_BOUNCE_BACK_HEIGHT_FEET
    /\ faults = 0
    /\ posted = <<>>

\* ------------------------------------------------------------ actions ----
\* pressButton up to its setTimeout: the pin is driven off and the hold timer
\* is scheduled.  `ps` is the set of pulses in flight before the call.
pressButton(o, ps) ==
    /\ pulses' = ps \cup {Hold(o)}
    /\ pin' = FALSE

\* moveToFinalHeight up to its setTimeout: the completion timer is scheduled
\* and its handle is pushed on the registry `ts`.
moveToFinalHeight(i, current, ts, tm) ==
    LET early == isStoppingEarly(req[i].height) IN
    /\ req' = [req EXCEPT
                 ![i].pc = "timer",
                 ![i].isStoppingEarly = early,
                 ![i].timeToReachHeightSec =
                     calculateTimeToReachHeight(req[i].height, current,
                                                req[i].shouldGoUp, early)]
    /\ timeouts' = Append(ts, i)
    /\ timers' = tm \cup {i}

\* The promise of a pressButton call resolves: its caller `o` runs on, up to
\* its next setTimeout.  `ps` and `pinv` are the pulses in flight and the pin
\* level at that moment.
Resume(o, ps, pinv) ==
    IF o = STOP
    THEN \* stop, after `await this.pressButton()`
         /\ stopPc' = "resolved"
         /\ pulses' = ps
         /\ pin' = pinv
         /\ UNCHANGED <<currentDoorHeight, req, timeouts, timers>>
    ELSE CASE req[o].pc = "dbl1" ->
              \* conditionallyDoDoublePress, after the first press
              /\ currentDoorHeight' = currentDoorHeight +
                     TimesDoublePressRate(MIN_TIME_BETWEEN_BUTTON_PRESSES_SEC,
                                          req[o].shouldGoUp)
              /\ pressButton(o, ps)
              /\ req' = [req EXCEPT ![o].pc = "dbl2", ![o].presses = @ + 1]
              /\ UNCHANGED <<timeouts, timers, stopPc>>
           [] req[o].pc = "dbl2" ->
              \* conditionallyDoDoublePress, after the second press; then the
              \* primary press of handleHeightRequest
              /\ currentDoorHeight' = currentDoorHeight +
                     TimesDoublePressRate(DOOR_OPENER_SIGNAL_HOLD_TIME_SEC,
                                          req[o].shouldGoUp)
              /\ pressButton(o, ps)
              /\ req' = [req EXCEPT ![o].pc = "primary", ![o].presses = @ + 1]
              /\ UNCHANGED <<timeouts, timers, stopPc>>
           [] req[o].pc \in {"primary", "bb3"} ->
              \* handleHeightRequest, after the last press
              /\ moveToFinalHeight(o, currentDoorHeight, timeouts, timers)
              /\ pulses' = ps
              /\ pin' = pinv
              /\ UNCHANGED <<currentDoorHeight, stopPc>>
           [] req[o].pc = "bb1" ->
              \* handleBounceBack, after the first press:
              \* waitForDoorToGetAboveBounceBackHeight schedules its timer
              /\ req' = [req EXCEPT ![o].pc = "bbwait"]
              /\ timeouts' = Append(timeouts, o)
              /\ timers' = timers \cup {o}
              /\ pulses' = ps
              /\ pin' = pinv
              /\ UNCHANGED <<currentDoorHeight, stopPc>>
           [] req[o].pc = "bb2" ->
              \* handleBounceBack, after the second press
              /\ currentDoorHeight' = currentDoorHeight +
                     TimesOpenRate(DOOR_AUTO_BOUNCE_BACK_DELAY_SEC)
              /\ pressButton(o, ps)
              /\ req' = [req EXCEPT ![o].pc = "bb3", ![o].presses = @ + 1]
              /\ UNCHANGED <<timeouts, timers, stopPc>>
           [] req[o].pc = "stopEarly" ->
              \* the completion timer's callback, after the stop-early press
              /\ currentDoorHeight' = req[o].height
              /\ req' = [req EXCEPT ![o].pc = "resolved"]
              /\ pulses' = ps
              /\ pin' = pinv
              /\ UNCHANGED <<timeouts, timers, stopPc>>
           [] OTHER -> FALSE

\* The invocation record of handleRequest(movement, number): the target is
\* resolved and clamped and the path is chosen.
Invocation(movement, number) ==
    LET height == correctHeightBounds(requestedHeight(movement, number))
        shouldGoUp == height > currentDoorHeight
    IN  [pc |-> IF willBounceBack(bounceBackThreshold) THEN "bb1"
                ELSE IF doDoublePress(shouldGoUp) THEN "dbl1"
                ELSE "primary",
         movement |-> movement, number |-> number,
         height |-> height, shouldGoUp |-> shouldGoUp,
         isStoppingEarly |-> FALSE, timeToReachHeightSec |-> 0,
         presses |-> 1, startHeight |-> currentDoorHeight,
         startDirection |-> lastDirectionWasUp,
         startMoving |-> doorIsMoving]

\* handleRequest(movement, number), up to the first setTimeout: the first
\* press of the chosen path begins.
handleRequest(movement, number) ==
    /\ FreeSlots # {}
    /\ LET i == NextSlot
       IN  /\ req' = [req EXCEPT ![i] = Invocation(movement, number)]
           /\ pressButton(i, pulses)
           /\ inFlightAtStop' = inFlightAtStop \ {i}
    /\ UNCHANGED <<currentDoorHeight, lastDirectionWasUp, doorIsMoving, timeouts,
                   timers, stopPc, lightPc, bounceBackThreshold, faults>>

\* pressButton with resolve() called when the pin is released, not when the
\* cooldown has elapsed.
pressButtonHoldTimer_ResolvesAtRelease(p) ==
    /\ p \in pulses
    /\ p.phase = "hold"
    /\ doorIsMoving' = ~doorIsMoving
    /\ lastDirectionWasUp' = IF ~doorIsMoving THEN ~lastDirectionWasUp
                                              ELSE lastDirectionWasUp
    /\ Resume(p.owner, (pulses \ {p}) \cup {Cooldown(p.owner)}, TRUE)
    /\ UNCHANGED <<calls, inFlightAtStop, lightPc, bounceBackThreshold, faults,
                   posted>>

\* pressButton with lastDirectionWasUp toggled by every pulse.
pressButtonHoldTimer_AlwaysTogglesDirection(p) ==
    /\ p \in pulses
    /\ p.phase = "hold"
    /\ pin' = TRUE
    /\ doorIsMoving' = ~doorIsMoving
    /\ lastDirectionWasUp' = ~lastDirectionWasUp
    /\ pulses' = (pulses \ {p}) \cup {Cooldown(p.owner)}
    /\ UNCHANGED <<currentDoorHeight, timeouts, timers, req, stopPc, calls,
                   inFlightAtStop, lightPc, bounceBackThreshold, faults,
                   posted>>

\* pressButton: the callback of the hold timer.
pressButtonHoldTimer(p) ==
    /\ p \in pulses
    /\ p.phase = "hold"
    /\ pin' = TRUE
    /\ doorIsMoving' = ~doorIsMoving
    /\ lastDirectionWasUp' = IF ~doorIsMoving THEN ~lastDirectionWasUp
                                              ELSE lastDirectionWasUp
    /\ pulses' = (pulses \ {p}) \cup {Cooldown(p.owner)}
    /\ UNCHANGED <<currentDoorHeight, timeouts, timers, req, stopPc, calls,
                   inFlightAtStop, lightPc, bounceBackThreshold, faults,
                   posted>>

\* pressButton: the callback of the cooldown timer calls resolve().
pressButtonCooldownTimer(p) ==
    /\ p \in pulses
    /\ p.phase = "cooldown"
    /\ Resume(p.owner, pulses \ {p}, pin)
    /\ UNCHANGED <<lastDirectionWasUp, doorIsMoving, calls,
                   inFlightAtStop, lightPc, bounceBackThreshold, faults,
                   posted>>

\* The callback of a registered timer: the completion timer of
\* moveToFinalHeight or the timer of waitForDoorToGetAboveBounceBackHeight.
completionTimer(i) ==
    /\ timerIsPending(i)
    /\ req[i].pc = "timer" => timerDelay(req[i].timeToReachHeightSec) >= 1
    /\ LET ts == Fired(Pop(timeouts), i)
           tm == timers \ {i}
       IN  CASE req[i].pc = "timer" ->
                 IF req[i].isStoppingEarly
                 THEN /\ pressButton(i, pulses)
                      /\ req' = [req EXCEPT ![i].pc = "stopEarly",
                                            ![i].presses = @ + 1]
                      /\ timeouts' = ts
                      /\ timers' = tm
                      /\ UNCHANGED currentDoorHeight
                 ELSE /\ currentDoorHeight' = req[i].height
                      /\ req' = [req EXCEPT ![i].pc = "resolved"]
                      /\ timeouts' = ts
                      /\ timers' = tm
                      /\ UNCHANGED <<pulses, pin>>
              [] req[i].pc = "bbwait" ->
                 /\ currentDoorHeight' =
                        heightAboveBounceBackHeight(bounceBackThreshold)
                 /\ IF req[i].shouldGoUp
                    THEN /\ moveToFinalHeight(i,
                                heightAboveBounceBackHeight(bounceBackThreshold),
                                ts, tm)
                         /\ UNCHANGED <<pulses, pin>>
                    ELSE /\ pressButton(i, pulses)
                         /\ req' = [req EXCEPT ![i].pc = "bb2",
                                               ![i].presses = @ + 1]
                         /\ timeouts' = ts
                         /\ timers' = tm
              [] OTHER -> FALSE
    /\ UNCHANGED <<lastDirectionWasUp, doorIsMoving, stopPc, calls,
                   inFlightAtStop, lightPc, bounceBackThreshold, faults,
                   posted>>

\* stop(), up to its await.
stop ==
    /\ stopPc # "press"
    /\ timers' = timers \ Range(timeouts)
    /\ timeouts' = <<>>
    /\ inFlightAtStop' = {i \in ReqIds : InFlight(i)}
    /\ IF doorIsMoving
       THEN /\ pressButton(STOP, pulses)
            /\ stopPc' = "press"
       ELSE /\ stopPc' = "resolved"
            /\ UNCHANGED <<pulses, pin>>
    /\ UNCHANGED <<currentDoorHeight, lastDirectionWasUp, doorIsMoving, req,
                   lightPc, bounceBackThreshold, faults>>

\* turnOnLight(), up to its setTimeout.
turnOnLight ==
    /\ lightPc = "none"
    /\ pin' = FALSE
    /\ lightPc' = "hold"
    /\ UNCHANGED <<currentDoorHeight, lastDirectionWasUp, doorIsMoving, timeouts,
                   timers, pulses, req, stopPc, inFlightAtStop,
                   bounceBackThreshold, faults>>

\* turnOnLight: the callback of its timer.
turnOnLightTimer ==
    /\ lightPc = "hold"
    /\ pin' = TRUE
    /\ lightPc' = "none"
    /\ UNCHANGED <<currentDoorHeight, lastDirectionWasUp, doorIsMoving, timeouts,
                   timers, pulses, req, stopPc, calls, inFlightAtStop,
                   bounceBackThreshold, faults,
                   posted>>

\* A caller that submits a request only when every earlier one has settled.
handleRequestSerialized(movement, number) ==
    /\ \A j \in ReqIds : ~InFlight(j)
    /\ handleRequest(movement, number)
    /\ UNCHANGED <<calls, posted>>

\* One more call from outside, at any time.
Call ==
    /\ calls < MaxCalls
    /\ calls' = calls + 1
    /\ UNCHANGED posted

\* ------------------------------------------------- pin-write failures ----
\* writePin rejects (GPIO.write fails).
WriteFails ==
    /\ faults > 0
    /\ faults' = faults - 1

\* handleRequest whose first pressButton fails at `await this.turnPinOff()`:
\* the rejection travels up the awaits to the promise of handleRequest.
handleRequestWriteFails(movement, number) ==
    /\ WriteFails
    /\ FreeSlots # {}
    /\ LET i == NextSlot
       IN  /\ req' = [req EXCEPT ![i] =
                  [Invocation(movement, number) EXCEPT !.pc = "rejected",
                                                       !.presses = 0]]
           /\ inFlightAtStop' = inFlightAtStop \ {i}
    /\ UNCHANGED <<currentDoorHeight, lastDirectionWasUp, doorIsMoving, timeouts,
                   timers, pin, pulses, stopPc, lightPc, bounceBackThreshold>>

\* pressButton with the toggle of doorIsMoving placed before
\* `await this.turnPinOn()`.
pressButtonHoldTimerWriteFails_TogglesFirst(p) ==
    /\ WriteFails
    /\ p \in pulses
    /\ p.phase = "hold"
    /\ pulses' = pulses \ {p}
    /\ doorIsMoving' = ~doorIsMoving
    /\ IF p.owner = STOP
       THEN stopPc' = "hung" /\ UNCHANGED req
       ELSE req' = [req EXCEPT ![p.owner].pc = "hung"] /\ UNCHANGED stopPc
    /\ UNCHANGED <<currentDoorHeight, lastDirectionWasUp, timeouts,
                   timers, pin, calls, inFlightAtStop, lightPc,
                   bounceBackThreshold,
                   posted>>

\* The callback of the hold timer fails at `await this.turnPinOn()`: the
\* async callback rejects, nobody awaits it, the cooldown timer is never
\* scheduled and resolve() is never called.
pressButtonHoldTimerWriteFails(p) ==
    /\ WriteFails
    /\ p \in pulses
    /\ p.phase = "hold"
    /\ pulses' = pulses \ {p}
    /\ IF p.owner = STOP
       THEN stopPc' = "hung" /\ UNCHANGED req
       ELSE req' = [req EXCEPT ![p.owner].pc = "hung"] /\ UNCHANGED stopPc
    /\ UNCHANGED <<currentDoorHeight, lastDirectionWasUp, doorIsMoving, timeouts,
                   timers, pin, calls, inFlightAtStop, lightPc,
                   bounceBackThreshold,
                   posted>>

\* The callback of the cooldown timer calls resolve() and the next
\* pressButton of the woken coroutine fails at `await this.turnPinOff()`,
\* after the height correction that precedes it; the rejection travels up
\* the awaits to the promise of handleRequest.
pressButtonCooldownTimerWriteFails(p) ==
    /\ WriteFails
    /\ p \in pulses
    /\ p.phase = "cooldown"
    /\ p.owner # STOP
    /\ req[p.owner].pc \in {"dbl1", "dbl2", "bb2"}
    /\ currentDoorHeight' = currentDoorHeight +
          (CASE req[p.owner].pc = "dbl1" ->
                  TimesDoublePressRate(MIN_TIME_BETWEEN_BUTTON_PRESSES_SEC,
                                       req[p.owner].shouldGoUp)
             [] req[p.owner].pc = "dbl2" ->
                  TimesDoublePressRate(DOOR_OPENER_SIGNAL_HOLD_TIME_SEC,
                                       req[p.owner].shouldGoUp)
             [] OTHER -> TimesOpenRate(DOOR_AUTO_BOUNCE_BACK_DELAY_SEC))
    /\ pulses' = pulses \ {p}
    /\ req' = [req EXCEPT ![p.owner].pc = "rejected"]
    /\ UNCHANGED <<lastDirectionWasUp, doorIsMoving, timeouts, timers, pin,
                   stopPc, calls, inFlightAtStop, lightPc, bounceBackThreshold,
                   posted>>

\* The callback of a registered timer whose pressButton fails at
\* `await this.turnPinOff()`.  In the completion timer the press is awaited
\* inside the async callback: nobody awaits that callback, resolve() is never
\* called and the height is not assigned.  After the bounce-back wait the
\* press is awaited by handleBounceBack: the promise of handleRequest rejects.
completionTimerWriteFails(i) ==
    /\ WriteFails
    /\ timerIsPending(i)
    /\ req[i].pc = "timer" => timerDelay(req[i].timeToReachHeightSec) >= 1
    /\ timeouts' = Fired(Pop(timeouts), i)
    /\ timers' = timers \ {i}
    /\ CASE req[i].pc = "timer" /\ req[i].isStoppingEarly ->
              /\ req' = [req EXCEPT ![i].pc = "hung"]
              /\ UNCHANGED currentDoorHeight
         [] req[i].pc = "bbwait" /\ ~req[i].shouldGoUp ->
              /\ currentDoorHeight' =
                     heightAboveBounceBackHeight(bounceBackThreshold)
              /\ req' = [req EXCEPT ![i].pc = "rejected"]
         [] OTHER -> FALSE
    /\ UNCHANGED <<lastDirectionWasUp, doorIsMoving, pin, pulses, stopPc, calls,
                   inFlightAtStop, lightPc, bounceBackThreshold,
                   posted>>

\* A serialized caller whose request fails at its first pin write.
handleRequestWriteFailsSerialized(movement, number) ==
    /\ \A j \in ReqIds : ~InFlight(j)
    /\ handleRequestWriteFails(movement, number)
    /\ UNCHANGED <<calls, posted>>

\* ---------------------------------------------------------- app layer ----
\* Values of the :movement route parameter and lines typed on stdin.
RouteMovements == {"up", "down", "to", "open"}
\* Values of the :distance route parameter; "" is a route without it.
RouteDistances == {"", "-3.5", "3.5", "abc"}

\* parseFloat of a route parameter.  NaN is Null: `NaN || x` is x and every
\* comparison with NaN is false.
parseFloat(param) ==
    CASE param = "3.5" -> Some(35000)
      [] param = "-3.5" -> Some(-35000)
      [] OTHER -> Null

\* !Boolean(request.params.distance) ||
\*     (typeof distance === 'number' && distance >= 0)
distanceIsValid(param) ==
    \/ param = ""
    \/ parseFloat(param) # Null /\ parseFloat(param)[1] >= 0

\* App.handleRequest: the handler of POST /garageDoor/:movement[/:distance].
App_handleRequest(movement, distance) ==
    IF movement \in Movements /\ distanceIsValid(distance)
    THEN handleRequest(movement, parseFloat(distance))
    ELSE \* 404
         UNCHANGED <<currentDoorHeight, lastDirectionWasUp, doorIsMoving,
                     timeouts, timers, pin, pulses, req, stopPc,
                     inFlightAtStop, lightPc, bounceBackThreshold, faults>>

\* App.listenManual: the listener of stdin lines.
listenManual(line) == handleRequest(line, Null)

\* The routes of the router, in the order configureRoutes registers them
\* for POST requests.
Routes == <<"movement", "movementDistance", "stop", "light", "all">>

\* The path (the segments after /garageDoor) matches the route.
Matches(route, path) ==
    CASE route = "movement" -> Len(path) = 1
      [] route = "movementDistance" -> Len(path) = 2
      [] route = "stop" -> path = <<"stop">>
      [] route = "light" -> path = <<"light">>
      [] OTHER -> TRUE

\* The router runs the first registered route that matches; no handler of
\* configureRoutes calls next().
matchedRoute(path) ==
    LET k == CHOOSE k \in DOMAIN Routes :
                 /\ Matches(Routes[k], path)
                 /\ \A j \in DOMAIN Routes : j < k => ~Matches(Routes[j], path)
    IN  Routes[k]

\* Paths of the POST requests that are sent to the server.
PostedPaths ==
    {<<"up">>, <<"down">>, <<"to", "3.5">>, <<"stop">>, <<"light">>,
     <<"up", "3.5", "now">>}

\* A POST request for /garageDoor/<path>: the handler of the matched route.
\* The handler of /garageDoor/stop replaces the GarageDoorHandler when
\* stop() has resolved.
router_post(path) ==
    LET route == matchedRoute(path)
    IN  CASE route = "movement" -> App_handleRequest(path[1], "")
          [] route = "movementDistance" -> App_handleRequest(path[1], path[2])
          [] route = "stop" -> stop
          [] route = "light" -> turnOnLight
          [] OTHER -> \* rejectWildcardRouteRequest: 404
               UNCHANGED <<currentDoorHeight, lastDirectionWasUp, doorIsMoving,
                           timeouts, timers, pin, pulses, req, stopPc,
                           inFlightAtStop, lightPc, bounceBackThreshold, faults>>

\* One more POST request, at any time.
Post(path) ==
    /\ calls < MaxCalls
    /\ calls' = calls + 1
    /\ posted' = path

\* ----------------------------------------------------- specifications ----
\* Any interleaving of handleRequest, stop and turnOnLight calls.
Next ==
    \/ \E movement \in Movements : \E number \in AnyTimeNumbers(movement) :
           Call /\ handleRequest(movement, number)
    \/ \E p \in pulses : pressButtonHoldTimer(p)
    \/ \E p \in pulses : pressButtonCooldownTimer(p)
    \/ \E i \in ReqIds : completionTimer(i)
    \/ Call /\ stop
    \/ Call /\ turnOnLight
    \/ turnOnLightTimer

Spec == Init /\ [][Next]_vars

\* Requests one after another, no stop() and no turnOnLight().
NextSerialized ==
    \/ \E movement \in Movements : \E number \in Numbers(movement) :
           handleRequestSerialized(movement, number)
    \/ \E p \in pulses : pressButtonHoldTimer(p)
    \/ \E p \in pulses : pressButtonCooldownTimer(p)
    \/ \E i \in ReqIds : completionTimer(i)

SpecSerialized == Init /\ [][NextSerialized]_vars

\* Requests that arrive through the HTTP routes and the stdin listener.
NextApp ==
    \/ \E movement \in RouteMovements : \E distance \in RouteDistances :
           Call /\ App_handleRequest(movement, distance)
    \/ \E line \in RouteMovements : Call /\ listenManual(line)
    \/ \E p \in pulses : pressButtonHoldTimer(p)
    \/ \E p \in pulses : pressButtonCooldownTimer(p)
    \/ \E i \in ReqIds : completionTimer(i)

SpecApp == Init /\ [][NextApp]_vars

\* The hardware rejects up to MaxFaults pin writes.
InitFaulty ==
    /\ currentDoorHeight = 0
    /\ lastDirectionWasUp = FALSE
    /\ doorIsMoving = FALSE
    /\ timeouts = <<>>
    /\ timers = {}
    /\ pin = TRUE
    /\ pulses = {}
    /\ req = [i \in ReqIds |-> BlankReq]
    /\ stopPc = "none"
    /\ calls = 0
    /\ inFlightAtStop = {}
    /\ lightPc = "none"
    /\ bounceBackThreshold = DOOR_MAX_AUTO_BOUNCE_BACK_HEIGHT_FEET
    /\ faults = MaxFaults
    /\ posted = <<>>

\* Requests one after another; any pin write may be the one that fails.
NextFaulty ==
    \/ \E movement \in Movements : \E number \in Numbers(movement) :
           handleRequestSerialized(movement, number)
    \/ \E movement \in Movements : \E number \in Numbers(movement) :
           handleRequestWriteFailsSerialized(movement, number)
    \/ \E p \in pulses : pressButtonHoldTimer(p)
    \/ \E p \in pulses : pressButtonHoldTimerWriteFails(p)
    \/ \E p \in pulses : pressButtonCooldownTimer(p)
    \/ \E p \in pulses : pressButtonCooldownTimerWriteFails(p)
    \/ \E i \in ReqIds : completionTimer(i)
    \/ \E i \in ReqIds : completionTimerWriteFails(i)

SpecFaulty == InitFaulty /\ [][NextFaulty]_vars

\* Arguments of the requests that SpecStop interleaves with stop().
StopTimeNumbers(movement) ==
    IF movement = "to" THEN {Some(35000), Some(39000)} ELSE {Null}

\* The first stop() call of a behaviour.
firstStop ==
    /\ stopPc = "none"
    /\ stop
    /\ UNCHANGED <<calls, posted>>

\* Overlapping handleRequest calls and one stop() call, at any time.
NextStop ==
    \/ \E movement \in Movements : \E number \in StopTimeNumbers(movement) :
           Call /\ handleRequest(movement, number)
    \/ \E p \in pulses : pressButtonHoldTimer(p)
    \/ \E p \in pulses : pressButtonCooldownTimer(p)
    \/ \E i \in ReqIds : completionTimer(i)
    \/ firstStop

SpecStop == Init /\ [][NextStop]_vars

\* SpecSerialized with every scheduled timer firing eventually.
SpecSerializedFair ==
    /\ SpecSerialized
    /\ WF_vars(\E p \in pulses : pressButtonHoldTimer(p))
    /\ WF_vars(\E p \in pulses : pressButtonCooldownTimer(p))
    /\ WF_vars(\E i \in ReqIds : completionTimer(i))

\* POST requests that arrive through the router of configureRoutes.
NextRoutes ==
    \/ \E path \in PostedPaths : Post(path) /\ router_post(path)
    \/ \E p \in pulses : pressButtonHoldTimer(p)
    \/ \E p \in pulses : pressButtonCooldownTimer(p)
    \/ \E i \in ReqIds : completionTimer(i)

SpecRoutes == Init /\ [][NextRoutes]_vars

\* A measured threshold of 1 ft, as the Bounceback Tests assume, in place of
\* the shipped placeholder.
BounceBackThresholdUnderTest == 10000
\* Targets of the Bounceback Tests.
BounceHeights == {Some(15000), Some(7500), Some(2500), Some(20000), Some(0)}

InitBounce ==
    /\ currentDoorHeight = 0
    /\ lastDirectionWasUp = FALSE
    /\ doorIsMoving = FALSE
    /\ timeouts = <<>>
    /\ timers = {}
    /\ pin = TRUE
    /\ pulses = {}
    /\ req = [i \in ReqIds |-> BlankReq]
    /\ stopPc = "none"
    /\ calls = 0
    /\ inFlightAtStop = {}
    /\ lightPc = "none"
    /\ bounceBackThreshold = BounceBackThresholdUnderTest
    /\ faults = 0
    /\ posted = <<>>

\* The Bounceback Tests: 'to' requests one after another.
NextBounce ==
    \/ \E number \in BounceHeights : handleRequestSerialized("to", number)
    \/ \E p \in pulses : pressButtonHoldTimer(p)
    \/ \E p \in pulses : pressButtonCooldownTimer(p)
    \/ \E i \in ReqIds : completionTimer(i)

SpecBounce == InitBounce /\ [][NextBounce]_vars

\* stop() called when every earlier handleRequest has settled and no pulse is
\* in flight.
stopWhenIdle ==
    /\ \A j \in ReqIds : ~InFlight(j)
    /\ pulses = {}
    /\ stop
    /\ UNCHANGED <<calls, posted>>

\* Requests one after another and stop() calls between them.
NextIdleStop ==
    \/ \E movement \in Movements : \E number \in Numbers(movement) :
           handleRequestSerialized(movement, number)
    \/ \E p \in pulses : pressButtonHoldTimer(p)
    \/ \E p \in pulses : pressButtonCooldownTimer(p)
    \/ \E i \in ReqIds : completionTimer(i)
    \/ stopWhenIdle

SpecIdleStop == Init /\ [][NextIdleStop]_vars

\* ------------------------------------------------------------- claims ----
\* The promise of the handleRequest invocation i resolves in this step.
Resolves(i) == req[i].pc # "resolved" /\ req'[i].pc = "resolved"
\* handleRequest is called in this step and its invocation is i.
Called(i) == ~InFlight(i) /\ req'[i].pc \in {"bb1", "dbl1", "primary"}
\* The invocation i begins a pressButton in this step.
BeginsPulse(i) ==
    /\ req'[i] # req[i]
    /\ req'[i].pc \in {"bb1", "bb2", "bb3", "dbl1", "dbl2", "primary", "stopEarly"}
    /\ Hold(i) \in pulses'
\* max(0, min(DOOR_HEIGHT_FEET, h))
Clamped(h) == IF h < 0 THEN 0 ELSE IF h > DOOR_HEIGHT_FEET THEN DOOR_HEIGHT_FEET ELSE h

C2_NoHeightMutationAfterStop ==
    [][stopPc = "resolved" =>
         \A i \in inFlightAtStop :
            ~(req'[i] # req[i] /\ currentDoorHeight' # currentDoorHeight)]_vars

\* C3: a request whose clamped target equals the current height presses the
\* button zero times and resolves with currentDoorHeight, lastDirectionWasUp
\* and doorIsMoving as they were when it was submitted.
C3_SameHeightIsNoOp ==
    [][\A i \in ReqIds :
         (Resolves(i) /\ req[i].movement = "to"
                      /\ req[i].height = req[i].startHeight)
            => /\ req'[i].presses = 0
               /\ currentDoorHeight' = req[i].startHeight
               /\ lastDirectionWasUp' = req[i].startDirection
               /\ doorIsMoving' = req[i].startMoving]_vars

\* C4: in every reachable state 0 <= currentDoorHeight <= DOOR_HEIGHT_FEET.
C4_HeightWithinBounds ==
    0 <= currentDoorHeight /\ currentDoorHeight <= DOOR_HEIGHT_FEET

\* C5: whenever the promise of a handleRequest resolves, doorIsMoving is
\* false.
C5_NotMovingWhenResolved ==
    [][\A i \in ReqIds : Resolves(i) => ~doorIsMoving']_vars

\* C6: while a pressButton pulse is in flight (hold or cooldown), no other
\* pressButton and no turnOnLight begins.
C6_OnePulseInFlight ==
    [][\A q \in pulses :
         (q \in pulses' \/ (q.phase = "hold" /\ Cooldown(q.owner) \in pulses'))
            => /\ \A p \in pulses' \ pulses : p.phase # "hold"
               /\ ~(lightPc = "none" /\ lightPc' = "hold")]_vars

\* C7: when a handleRequest invocation begins a pulse, every earlier pulse of
\* that invocation has finished its hold and its cooldown.
C7_PulsesOfARequestAreSequential ==
    [][\A i \in ReqIds :
         BeginsPulse(i) =>
            \A q \in pulses :
               q.owner = i => (q.phase = "cooldown" /\ q \notin pulses')]_vars

\* A stop-early pulse of a request whose computed travel time is negative is
\* in its hold, after a double press and a primary pulse of the same request.
C7_Witness ==
    \E i \in ReqIds :
        /\ req[i].pc = "stopEarly"
        /\ req[i].presses = 4
        /\ req[i].timeToReachHeightSec < 0
        /\ Hold(i) \in pulses

\* C8: a handleRequest called while an earlier invocation is in flight issues
\* no pulse, schedules no timer and changes no field of the door state.
C8_RequestWhileInFlightIsRejected ==
    [][\A i \in ReqIds :
         (Called(i) /\ \E j \in ReqIds \ {i} : InFlight(j))
            => /\ pulses' = pulses
               /\ timers' = timers
               /\ timeouts' = timeouts
               /\ currentDoorHeight' = currentDoorHeight
               /\ lastDirectionWasUp' = lastDirectionWasUp
               /\ doorIsMoving' = doorIsMoving]_vars

C10_RelativeRequestEndsAtClampedSum ==
    [][\A i \in ReqIds :
         (Resolves(i) /\ req[i].movement # "to" /\ req[i].number # Null
                      /\ req[i].number[1] >= 0)
            => currentDoorHeight' =
                  Clamped(req[i].startHeight +
                          (IF req[i].movement = "up" THEN req[i].number[1]
                                                     ELSE -req[i].number[1]))]_vars

\* C11: no handleRequest invocation of the handler is entered with a movement
\* other than 'up', 'down', 'to' or with a negative distance: such a request
\* issues no pulse and leaves currentDoorHeight, lastDirectionWasUp and
\* doorIsMoving unchanged, on the HTTP routes and on stdin.
C11_InvalidRequestIsRejected ==
    [][\A i \in ReqIds :
         (Called(i) /\ (\/ req'[i].movement \notin {"up", "down", "to"}
                        \/ /\ req'[i].number # Null
                           /\ req'[i].number[1] < 0))
            => /\ pulses' = pulses
               /\ currentDoorHeight' = currentDoorHeight
               /\ lastDirectionWasUp' = lastDirectionWasUp
               /\ doorIsMoving' = doorIsMoving]_vars

\* A pin write is rejected in this step.
WriteFailed == faults' < faults

\* C12: whenever a pin write fails during a handleRequest invocation, the
\* promise of that invocation rejects; it is never left pending forever.
C12_WriteFailureRejectsTheRequest ==
    [][WriteFailed =>
         \A i \in ReqIds : req'[i] # req[i] => req'[i].pc = "rejected"]_vars

\* C13: a step in which a pin write of pressButton fails toggles neither
\* doorIsMoving nor lastDirectionWasUp, begins no pulse (no retry) and leaves
\* no pulse of the failed invocation in flight; currentDoorHeight changes in
\* that step only by an assignment the woken coroutine makes before it calls
\* the failing pressButton.
C13_FailedPulseChangesNothing ==
    [][WriteFailed =>
         /\ doorIsMoving' = doorIsMoving
         /\ lastDirectionWasUp' = lastDirectionWasUp
         /\ pulses' \subseteq pulses
         /\ \A i \in ReqIds :
               req'[i] # req[i] => \A q \in pulses' : q.owner # i
         /\ \/ currentDoorHeight' = currentDoorHeight
            \/ \E i \in ReqIds : /\ req[i].pc \in {"dbl1", "dbl2", "bb2", "bbwait"}
                                 /\ req'[i] # req[i]]_vars

\* The pin-on write of the primary pulse of a request has failed: the pin is
\* still off, the door state is as it was when the request was submitted.
C13_Witness ==
    \E i \in ReqIds :
        /\ req[i].pc = "hung"
        /\ req[i].presses = 1
        /\ faults = 0
        /\ pin = FALSE
        /\ doorIsMoving = req[i].startMoving
        /\ lastDirectionWasUp = req[i].startDirection
        /\ currentDoorHeight = req[i].startHeight
        /\ req[i].startHeight = 35000

\* stop() is called in this step.
StopCalled == stopPc = "none" /\ stopPc' # "none"

\* C14: the timeouts registry holds exactly the handles of the registered
\* timers that are scheduled and have not fired, and when stop() has been
\* called no timer scheduled before it is still pending, so none fires after
\* it.
C14_NoTimerSurvivesStop ==
    [][/\ Range(timeouts') = timers'
       /\ StopCalled => timers' = {}]_vars

\* The invocation i runs in this step: one of its timers fires.
Runs(i) == req'[i] # req[i] \/ \E p \in pulses \ pulses' : p.owner = i

\* C15: when stop() resolves, doorIsMoving is false and the timeouts registry
\* is empty; once it has resolved, no handleRequest that was in flight when
\* stop() was called begins a pulse, and whenever such a request runs it
\* leaves doorIsMoving false and the registry empty.
C15_IdleAfterStop ==
    [][/\ (stopPc # "resolved" /\ stopPc' = "resolved")
            => (~doorIsMoving' /\ timeouts' = <<>>)
       /\ stopPc = "resolved"
            => \A i \in inFlightAtStop :
                  (InFlight(i) /\ Runs(i))
                     => /\ ~BeginsPulse(i)
                        /\ ~doorIsMoving'
                        /\ timeouts' = <<>>]_vars

\* C16: a request that does not bounce back takes the double-press path
\* exactly when 0 < currentDoorHeight < DOOR_HEIGHT_FEET and its direction
\* (target > current) equals lastDirectionWasUp; its primary pulse is its
\* third pulse on that path and its first pulse otherwise.
C16_DoublePressExactlyWhenSameDirectionInside ==
    [][\A i \in ReqIds :
         /\ (Called(i) /\ req'[i].pc # "bb1")
               => (req'[i].pc = "dbl1"
                     <=> /\ 0 < currentDoorHeight
                         /\ currentDoorHeight < DOOR_HEIGHT_FEET
                         /\ (req'[i].height > currentDoorHeight)
                               = lastDirectionWasUp)
         /\ (req[i].pc # "primary" /\ req'[i].pc = "primary")
               => req'[i].presses =
                     (IF /\ 0 < req'[i].startHeight
                         /\ req'[i].startHeight < DOOR_HEIGHT_FEET
                         /\ req'[i].shouldGoUp = req'[i].startDirection
                      THEN 3 ELSE 1)]_vars

\* A request upward from an interior height whose latched direction is up has
\* begun its primary pulse after the two pulses of the double press.
C16_Witness ==
    \E i \in ReqIds :
        /\ req[i].pc = "primary"
        /\ req[i].presses = 3
        /\ req[i].startHeight = 35000
        /\ req[i].shouldGoUp
        /\ req[i].startDirection
        /\ Hold(i) \in pulses

\* C17: with requests submitted one after another, no stop() and no failing
\* pin write, every handleRequest invocation eventually resolves, whatever
\* its computed travel time.
C17_EveryRequestResolves ==
    \A i \in ReqIds : InFlight(i) ~> (req[i].pc = "resolved")

\* A request whose computed travel time is negative has resolved.
C17_Witness ==
    \E i \in ReqIds :
        /\ req[i].pc = "resolved"
        /\ req[i].timeToReachHeightSec < 0
        /\ currentDoorHeight = req[i].height

HoldElapsed ==
    \E p \in pulses :
        /\ p.phase = "hold"
        /\ p \notin pulses'
        /\ Cooldown(p.owner) \in pulses'

\* C19: the step that releases the pin of a pulse toggles doorIsMoving, and
\* toggles lastDirectionWasUp exactly when doorIsMoving goes from false to
\* true; no other step changes doorIsMoving or lastDirectionWasUp.
C19_PulseTogglesMovingAndLatchesDirection ==
    [][/\ HoldElapsed
            => /\ doorIsMoving' = ~doorIsMoving
               /\ (lastDirectionWasUp' # lastDirectionWasUp) <=> ~doorIsMoving
       /\ ~HoldElapsed
            => /\ doorIsMoving' = doorIsMoving
               /\ lastDirectionWasUp' = lastDirectionWasUp]_vars

\* The stop-early pulse of a request has released the pin: the door has
\* stopped and the latched direction is the one the primary pulse set.
C19_Witness ==
    \E i \in ReqIds :
        /\ req[i].pc = "stopEarly"
        /\ Cooldown(i) \in pulses
        /\ ~req[i].startMoving
        /\ ~doorIsMoving
        /\ lastDirectionWasUp = ~req[i].startDirection

\* C20: in the double press, after the first pulse currentDoorHeight advances
\* by MIN_TIME_BETWEEN_BUTTON_PRESSES_SEC times the signed rate of the
\* direction lastDirectionWasUp then indicates, and after the second pulse by
\* DOOR_OPENER_SIGNAL_HOLD_TIME_SEC times the signed rate of that same
\* direction (the second pulse has toggled lastDirectionWasUp again exactly
\* if it has set doorIsMoving).
C20_DoublePressAdvancesInLatchedDirection ==
    [][\A i \in ReqIds :
         /\ (req[i].pc = "dbl1" /\ req'[i].pc = "dbl2")
               => currentDoorHeight' = currentDoorHeight +
                     (IF lastDirectionWasUp
                      THEN TimesOpenRate(MIN_TIME_BETWEEN_BUTTON_PRESSES_SEC)
                      ELSE -TimesCloseRate(MIN_TIME_BETWEEN_BUTTON_PRESSES_SEC))
         /\ (req[i].pc = "dbl2" /\ req'[i].pc = "primary")
               => currentDoorHeight' = currentDoorHeight +
                     (IF lastDirectionWasUp # doorIsMoving
                      THEN TimesOpenRate(DOOR_OPENER_SIGNAL_HOLD_TIME_SEC)
                      ELSE -TimesCloseRate(DOOR_OPENER_SIGNAL_HOLD_TIME_SEC))]_vars

\* C21: a POST to /garageDoor/stop runs GarageDoorHandler.stop(): the
\* timeouts registry is emptied and the stop() coroutine has begun its pulse
\* or has resolved.
C21_PostStopCallsStop ==
    [][(calls' = calls + 1 /\ posted' = <<"stop">>)
          => /\ timeouts' = <<>>
             /\ stopPc' \in {"press", "resolved"}]_vars

\* C22: on the bounce-back path of a request downward, the third pulse of
\* handleBounceBack begins with currentDoorHeight increased by
\* DOOR_OPENER_SIGNAL_HOLD_TIME_SEC times the open rate since the second
\* pulse, and handleBounceBack has issued exactly three pulses when the
\* completion timer is scheduled.
C22_BounceBackDownThreePulsesAndHoldTimeCorrection ==
    [][\A i \in ReqIds :
         /\ (req[i].pc = "bb2" /\ req'[i].pc = "bb3")
               => /\ currentDoorHeight' = currentDoorHeight +
                        TimesOpenRate(DOOR_OPENER_SIGNAL_HOLD_TIME_SEC)
                  /\ req'[i].presses = 3
         /\ (req[i].pc = "bb3" /\ req'[i].pc = "timer")
               => /\ ~req[i].shouldGoUp
                  /\ req'[i].presses = 3]_vars

\* C23: stop() called when no handleRequest is in flight begins no pulse and
\* leaves currentDoorHeight, lastDirectionWasUp and doorIsMoving unchanged.
C23_StopWhenIdleDoesNothing ==
    [][(/\ stopPc # "press"
        /\ stopPc' \in {"press", "resolved"}
        /\ stopPc' # stopPc
        /\ \A j \in ReqIds : ~InFlight(j))
          => /\ pulses' = pulses
             /\ stopPc' = "resolved"
             /\ currentDoorHeight' = currentDoorHeight
             /\ lastDirectionWasUp' = lastDirectionWasUp
             /\ doorIsMoving' = doorIsMoving]_vars

\* C24: with requests submitted one after another, when a request that
\* changed the height resolves, lastDirectionWasUp tells the direction of its
\* travel: true if the height increased, false if it decreased.
C24_LatchedDirectionIsDirectionOfTravel ==
    [][\A i \in ReqIds :
         (Resolves(i) /\ currentDoorHeight' # req[i].startHeight)
            => lastDirectionWasUp' = (currentDoorHeight' > req[i].startHeight)]_vars

\* C25: a handleRequest whose registered timer was cleared by stop() does
\* not run again: its promise is neither resolved nor rejected (its record
\* changes only when a new invocation takes its place).
C25_CancelledRequestNeverSettles ==
    [][\A i \in ReqIds :
         Cancelled(i) => /\ req'[i].pc \notin {"resolved", "rejected"}
                         /\ req'[i] = req[i] \/ Called(i)]_vars

\* stop() has cleared the completion timer of a request and has resolved; the
\* height is still the one the request started from.
C25_Witness ==
    \E i \in ReqIds :
        /\ Cancelled(i)
        /\ req[i].pc = "timer"
        /\ stopPc = "resolved"
        /\ timeouts = <<>>
        /\ currentDoorHeight = req[i].startHeight

\* C26: with the shipped threshold the bounce-back condition is false in
\* every reachable state and no request is on the handleBounceBack path:
\* every request is in the double press, in its primary pulse or past it.
C26_BounceBackNeverTriggered ==
    /\ bounceBackThreshold = DOOR_MAX_AUTO_BOUNCE_BACK_HEIGHT_FEET
    /\ ~(/\ currentDoorHeight <= DOOR_MAX_AUTO_BOUNCE_BACK_HEIGHT_FEET
         /\ currentDoorHeight > 0
         /\ ~lastDirectionWasUp)
    /\ \A i \in ReqIds : req[i].pc \notin {"bb1", "bbwait", "bb2", "bb3"}

\* A request submitted near the floor with the latched direction down, where
\* a measured threshold would trigger the bounce-back, is in its double press.
C26_Witness ==
    \E i \in ReqIds :
        /\ req[i].startHeight = 1000
        /\ ~req[i].startDirection
        /\ ~req[i].shouldGoUp
        /\ req[i].pc = "dbl1"

====
